---- MODULE Spec2Model ----
(***************************************************************************)
(* Model of the zenoh -> foxglove bridge of deck-robot-remote              *)
(* (src/src/foxglove_server.rs): the orchestrator start_foxglove_bridge,   *)
(* the two per-topic starters and the forwarder loops they spawn.          *)
(*                                                                         *)
(* The orchestrator is one task; every spawned forwarder is one task.      *)
(* Each action is the code between two suspension points (.await) of one   *)
(* task.  The bus (zenoh) and the visualization server (foxglove_ws) are   *)
(* the environment: the outcome of declare_subscriber, create_publisher,   *)
(* recv_async and Channel::send is chosen nondeterministically.            *)
(***************************************************************************)
EXTENDS Integers, Sequences, FiniteSets, TLC

\* ------------------------------------------------------------------ bounds
MaxTopics == 2         \* most subscriptions in a configuration
MaxSamples == 2        \* most samples the bus delivers in one run of Spec
MaxFaults == 2         \* most failures the environment injects in one run
StartSamples == 1      \* samples delivered in one run of SpecStart
MaxEvents == 1         \* events next_event() returns in one iteration
MaxIterations == 2     \* iterations of the gamepad loop in one run
ClockSamples == 2      \* samples delivered in one run of SpecClock
NanosBits == 1         \* width in bits of the u64 of time_nanos
ForwarderSamples == 3  \* samples delivered in one run of SpecForwarder
CadenceSamples == 41   \* samples delivered in one run of SpecCadence
CadenceFaults == 1     \* failures injected in one run of SpecCadence

\* ------------------------------------------------------- program constants
CadencePeriod == 20
UNIX_EPOCH == 0                  \* the wall clock counts ns from the epoch
U64_MAX == 2 ^ NanosBits - 1     \* u64::MAX, at the width of the model
PROTOBUF_ENCODING == "protobuf"
JSON_ENCODING == "json"
JSONSCHEMA_ENCODING == "jsonschema"

\* The schema texts, each stood for by a name of its own.
GENERIC_JSON_SCHEMA == "GenericJsonSchema"
IKEA_DIMMER_JSON_SCHEMA == "IkeaDimmerJsonSchema"
MOTION_SENSOR_JSON_SCHEMA == "MotionSensorJsonSchema"
CONTACT_SENSOR_JSON_SCHEMA == "ContactSensorJsonSchema"
CLIMATE_SENSOR_JSON_SCHEMA == "ClimateSensorJsonSchema"
VOICE_PROBABILITY_JSON_SCHEMA == "VoiceProbabilityJsonSchema"

\* The compiled descriptor pool: the fully qualified message names it holds.
\* The pool is built outside foxglove_server.rs; the bridge only looks names
\* up in it.
DESCRIPTOR_POOL == {"Known.Msg"}

\* json_schema_table: schema name -> schema text.
json_schema_table ==
    [n \in {"GENERIC_JSON_SCHEMA", "IKEA_DIMMER_JSON_SCHEMA",
            "MOTION_SENSOR_JSON_SCHEMA", "CONTACT_SENSOR_JSON_SCHEMA",
            "CLIMATE_SENSOR_JSON_SCHEMA", "VOICE_PROBABILITY_JSON_SCHEMA"} |->
        CASE n = "GENERIC_JSON_SCHEMA" -> GENERIC_JSON_SCHEMA
          [] n = "IKEA_DIMMER_JSON_SCHEMA" -> IKEA_DIMMER_JSON_SCHEMA
          [] n = "MOTION_SENSOR_JSON_SCHEMA" -> MOTION_SENSOR_JSON_SCHEMA
          [] n = "CONTACT_SENSOR_JSON_SCHEMA" -> CONTACT_SENSOR_JSON_SCHEMA
          [] n = "CLIMATE_SENSOR_JSON_SCHEMA" -> CLIMATE_SENSOR_JSON_SCHEMA
          [] n = "VOICE_PROBABILITY_JSON_SCHEMA" -> VOICE_PROBABILITY_JSON_SCHEMA]

\* Option<T>: None, or Some(v).
None == <<>>
Some(v) == <<v>>
unwrap(o) == o[1]

\* --------------------------------------------------------- configuration
ProtobufSubscription ==
    [topic : {"a", "c"}, proto_type : {"Known.Msg", "Missing.Msg"}]

JsonSubscription ==
    [topic : {"b"}, type_name : {"T"},
     json_schema_name : {None, Some("IKEA_DIMMER_JSON_SCHEMA"),
                         Some("NO_SUCH_SCHEMA")},
     latched : {None, Some(TRUE), Some(FALSE)}]

SeqsUpTo(S, n) == UNION {[1..k -> S] : k \in 0..n}

Configuration ==
    {c \in [protobuf_subscriptions : SeqsUpTo(ProtobufSubscription, MaxTopics),
            json_subscriptions : SeqsUpTo(JsonSubscription, MaxTopics)] :
        Len(c.protobuf_subscriptions) + Len(c.json_subscriptions) <= MaxTopics}

\* The configurations of the runs of Spec, where several topics run side by
\* side: the typed subscriptions are all of topic "a"; the JSON
\* subscriptions leave latched out and name no schema or one that is not in
\* the table.
BridgeConfigs ==
    {c \in Configuration :
        /\ \A k \in DOMAIN c.protobuf_subscriptions :
              c.protobuf_subscriptions[k].topic = "a"
        /\ \A k \in DOMAIN c.json_subscriptions :
              /\ c.json_subscriptions[k].latched = None
              /\ c.json_subscriptions[k].json_schema_name # Some("IKEA_DIMMER_JSON_SCHEMA")}


\* StartOrder with the JSON subscriptions started before the typed ones.
StartOrder_JsonFirst(c) ==
    [k \in 1..Len(c.json_subscriptions) |->
        [kind |-> "json", sub |-> c.json_subscriptions[k]]]
    \o
    [k \in 1..Len(c.protobuf_subscriptions) |->
        [kind |-> "proto", sub |-> c.protobuf_subscriptions[k]]]

\* The order in which start_foxglove_bridge starts the subscriptions: the
\* typed ones, then the JSON ones.
StartOrder(c) ==
    [k \in 1..Len(c.protobuf_subscriptions) |->
        [kind |-> "proto", sub |-> c.protobuf_subscriptions[k]]]
    \o
    [k \in 1..Len(c.json_subscriptions) |->
        [kind |-> "json", sub |-> c.json_subscriptions[k]]]

Slots == 1..MaxTopics

\* ---------------------------------------------------------------- samples
\* KnownEncoding of a zenoh sample; "Other" stands for every encoding that is
\* none of the three the JSON forwarder matches on.
Encodings == {"TextPlain", "TextJson", "AppOctetStream", "Other"}

\* A sample: its declared encoding, the bytes of its value, and whether the
\* value conversion the forwarder asks for (Value -> Vec<u8> / String)
\* succeeds on it.  The n-th sample a subscription delivers carries the
\* bytes n, so that every sample of a subscription can be told from the
\* others by its bytes.
SamplesAt(n, encodings) ==
    [encoding : encodings, value : {n}, convertible : BOOLEAN]

\* The encodings of the samples delivered in the runs of Spec, where several
\* topics run side by side: one the JSON forwarder accepts and one it does
\* not.
BridgeEncodings == {"TextPlain", "Other"}

VARIABLES
    config,           \* the Configuration given to start_foxglove_bridge
    orch,             \* the orchestrator: position in start_foxglove_bridge
    declared,         \* number of bus subscriptions ever declared
    subscribers,      \* live bus subscriptions: [id, owner, topic]
    channels,         \* channels created on the server
    task,             \* slot -> the forwarder task spawned for it, or None
    pc,               \* slot -> where its forwarder task stands
    message_counter,  \* slot -> the loop's message_counter
    payload,          \* slot -> the payload being sent, or None
    delivered,        \* subscription id -> samples recv_async has returned
    sent,             \* channel id -> the calls of Channel::send, in order
    cadence,          \* slot -> the counts logged by the info! of the loop
    errlog,           \* slot -> the errors logged by the loop, in order
    closed,           \* subscriptions whose recv_async fails from now on
    stalled,          \* channels whose send does not complete
    time_nanos,       \* slot -> the time_nanos of the loop's current round
    clock,            \* the wall clock SystemTime::now() reads, in ns
    skewed,           \* the wall clock was set backwards at some point
    reader,           \* the gamepad loop that runs: "main" or "start_gamepad_reader"
    keep_running,     \* the AtomicBool the Ctrl-C handler clears
    gp_pc,            \* where the gamepad loop stands
    gamepads,         \* message_data.gamepads: gamepad id -> GamepadMessage
    known_ids,        \* known_ids of the iteration
    events,           \* the events next_event() returned in the iteration
    json,             \* the serialized message being put, or None
    published,        \* the messages put on the bus, in order
    result            \* what the gamepad loop returned, or None

taskvars == <<task, pc, message_counter, payload, delivered, sent, cadence,
              errlog, time_nanos>>
envvars == <<closed, stalled, clock, skewed>>
gpvars == <<reader, keep_running, gp_pc, gamepads, known_ids, events, json,
            published, result>>
bridgevars == <<config, orch, declared, subscribers, channels, taskvars,
                envvars>>
vars == <<config, orch, declared, subscribers, channels, task, pc,
          message_counter, payload, delivered, sent, cadence, errlog,
          closed, stalled, time_nanos, clock, skewed, reader, keep_running,
          gp_pc, gamepads, known_ids, events, json, published, result>>

N == Len(StartOrder(config))
Entry(i) == StartOrder(config)[i]

InitRest ==
    /\ orch = [pc |-> "resolve", idx |-> 1, schema |-> None, err |-> None]
    /\ declared = 0
    /\ subscribers = {}
    /\ channels = {}
    /\ task = [i \in Slots |-> None]
    /\ pc = [i \in Slots |-> "none"]
    /\ message_counter = [i \in Slots |-> 0]
    /\ payload = [i \in Slots |-> None]
    /\ delivered = [i \in Slots |-> <<>>]
    /\ sent = [i \in Slots |-> <<>>]
    /\ cadence = [i \in Slots |-> <<>>]
    /\ errlog = [i \in Slots |-> <<>>]
    /\ closed = {}
    /\ stalled = {}
    /\ time_nanos = [i \in Slots |-> 0]
    /\ clock = UNIX_EPOCH
    /\ skewed = FALSE
    /\ keep_running = TRUE
    /\ gp_pc = "head"
    /\ gamepads = <<>>
    /\ known_ids = {}
    /\ events = <<>>
    /\ json = None
    /\ published = <<>>
    /\ result = None

Init ==
    /\ config \in BridgeConfigs
    /\ InitRest
    /\ reader = "main"

\* ------------------------------------------------------------ orchestrator

\* get_message_by_name with a descriptor made up for a name the pool lacks.
get_message_by_name_Any(name) == Some([full_name |-> name])

\* DESCRIPTOR_POOL.get_message_by_name(name): the descriptor, or None.
get_message_by_name(name) ==
    IF name \in DESCRIPTOR_POOL THEN Some([full_name |-> name]) ELSE None


\* json_schema_for with the generic schema used for a name the table lacks.
json_schema_for_Fallback(json_schema_name) ==
    IF json_schema_name = None THEN Some(GENERIC_JSON_SCHEMA)
    ELSE IF unwrap(json_schema_name) \in DOMAIN json_schema_table
         THEN Some(json_schema_table[unwrap(json_schema_name)])
         ELSE Some(GENERIC_JSON_SCHEMA)

\* json_schema_table().get(name), or GENERIC_JSON_SCHEMA when no name is
\* configured; None when the name is not in the table.
json_schema_for(json_schema_name) ==
    IF json_schema_name = None THEN Some(GENERIC_JSON_SCHEMA)
    ELSE IF unwrap(json_schema_name) \in DOMAIN json_schema_table
         THEN Some(json_schema_table[unwrap(json_schema_name)])
         ELSE None


\* unwrap_or_false with the configured flag ignored.
unwrap_or_false_Never(latched) == FALSE

\* json_subscription.latched.unwrap_or(false)
unwrap_or_false(latched) == IF latched = None THEN FALSE ELSE unwrap(latched)


\* Resolve with the schema-encoding hint of a JSON channel left as the one of
\* the typed channels.
Resolve_ProtobufHint(e) ==
    IF e.kind = "proto"
    THEN LET d == get_message_by_name(e.sub.proto_type) IN
         IF d = None THEN None
         ELSE Some([encoding |-> PROTOBUF_ENCODING,
                    schema_name |-> unwrap(d).full_name,
                    schema |-> "descriptor_pool",
                    schema_encoding |-> PROTOBUF_ENCODING, latched |-> FALSE])
    ELSE LET j == json_schema_for(e.sub.json_schema_name) IN
         IF j = None THEN None
         ELSE Some([encoding |-> JSON_ENCODING,
                    schema_name |-> e.sub.type_name,
                    schema |-> unwrap(j),
                    schema_encoding |-> PROTOBUF_ENCODING,
                    latched |-> unwrap_or_false(e.sub.latched)])

\* What the loop body of start_foxglove_bridge looks up for an entry before
\* it calls the starter: the arguments of create_publisher, or None when the
\* lookup fails.
Resolve(e) ==
    IF e.kind = "proto"
    THEN LET d == get_message_by_name(e.sub.proto_type) IN
         IF d = None THEN None
         ELSE Some([encoding |-> PROTOBUF_ENCODING,
                    schema_name |-> unwrap(d).full_name,
                    schema |-> "descriptor_pool",
                    schema_encoding |-> PROTOBUF_ENCODING, latched |-> FALSE])
    ELSE LET j == json_schema_for(e.sub.json_schema_name) IN
         IF j = None THEN None
         ELSE Some([encoding |-> JSON_ENCODING,
                    schema_name |-> e.sub.type_name,
                    schema |-> unwrap(j),
                    schema_encoding |-> JSONSCHEMA_ENCODING,
                    latched |-> unwrap_or_false(e.sub.latched)])

\* ReturnErr with every forwarder task cancelled when the error is returned.
ReturnErr_CancelAll(e) ==
    /\ orch' = [orch EXCEPT !.pc = "failed", !.err = Some(e), !.schema = None]
    /\ pc' = [i \in Slots |-> IF pc[i] = "none" THEN "none" ELSE "cancelled"]
    /\ UNCHANGED <<task, message_counter, payload, delivered, sent, cadence,
                   errlog, time_nanos>>

\* ReturnErr with the error recorded but the loop over the subscriptions
\* continued (best-effort start).
ReturnErr_Continue(e) ==
    /\ orch' = [orch EXCEPT !.pc = "resolve", !.idx = @ + 1, !.err = Some(e),
                            !.schema = None]
    /\ UNCHANGED taskvars

\* The `?` of start_foxglove_bridge: the first error is returned to the
\* caller; the loop over the subscriptions is left and nothing is done to
\* the tasks already spawned.
ReturnErr(e) ==
    /\ orch' = [orch EXCEPT !.pc = "failed", !.err = Some(e), !.schema = None]
    /\ UNCHANGED taskvars

\* ResolveSchema with the bus subscription declared before the lookup.
ResolveSchema_SubscribeFirst ==
    /\ orch.pc = "resolve"
    /\ orch.idx <= N
    /\ declared' = declared + 1
    /\ subscribers' = subscribers \cup
         {[id |-> declared + 1, owner |-> orch.idx,
           topic |-> Entry(orch.idx).sub.topic]}
    /\ LET r == Resolve(Entry(orch.idx)) IN
       IF r = None
       THEN ReturnErr("SchemaNotFound")
       ELSE /\ orch' = [orch EXCEPT !.pc = "provision", !.schema = r]
            /\ UNCHANGED taskvars
    /\ UNCHANGED <<gpvars, config, channels, envvars>>

\* Lines 64-67 and 78-88: the lookup for the next subscription.
ResolveSchema ==
    /\ orch.pc = "resolve"
    /\ orch.idx <= N
    /\ LET r == Resolve(Entry(orch.idx)) IN
       IF r = None
       THEN ReturnErr("SchemaNotFound")
       ELSE /\ orch' = [orch EXCEPT !.pc = "subscribe", !.schema = r]
            /\ UNCHANGED taskvars
    /\ UNCHANGED <<gpvars, config, declared, subscribers, channels, envvars>>

\* declare_subscriber(topic).res().await of either starter.
DeclareSubscriber(ok) ==
    /\ orch.pc = "subscribe"
    /\ IF ok
       THEN /\ declared' = declared + 1
            /\ subscribers' = subscribers \cup
                 {[id |-> declared + 1, owner |-> orch.idx,
                   topic |-> Entry(orch.idx).sub.topic]}
            /\ orch' = [orch EXCEPT !.pc = "provision"]
            /\ UNCHANGED taskvars
       ELSE /\ ReturnErr("ZenohError")
            /\ UNCHANGED <<declared, subscribers>>
    /\ UNCHANGED <<gpvars, config, channels, envvars>>

\* The subscriber the starter of the current entry holds in zenoh_subscriber.
zenoh_subscriber == CHOOSE s \in subscribers : s.owner = orch.idx

\* SpawnedTask with every loop sending on the first channel of the server.
SpawnedTask_SharedChannel(kind, topic, sub_id, chan_id) ==
    Some([kind |-> kind, topic |-> topic, zenoh_subscriber |-> sub_id,
          foxglove_channel |-> 1])

\* The task tokio::spawn creates: it moves zenoh_subscriber and
\* foxglove_channel into the loop.
SpawnedTask(kind, topic, sub_id, chan_id) ==
    Some([kind |-> kind, topic |-> topic, zenoh_subscriber |-> sub_id,
          foxglove_channel |-> chan_id])


\* CreatePublisher with the subscriber kept declared when the channel cannot
\* be created.
CreatePublisher_LeakSubscriber(ok) ==
    /\ orch.pc = "provision"
    /\ LET i == orch.idx
           e == Entry(i)
           id == Cardinality(channels) + 1
       IN IF ok
          THEN /\ channels' = channels \cup
                    {[id |-> id, owner |-> i, topic |-> e.sub.topic,
                      encoding |-> unwrap(orch.schema).encoding,
                      schema_name |-> unwrap(orch.schema).schema_name,
                      schema |-> unwrap(orch.schema).schema,
                      schema_encoding |-> unwrap(orch.schema).schema_encoding,
                      latched |-> unwrap(orch.schema).latched]}
               /\ task' = [task EXCEPT ![i] =
                    SpawnedTask(e.kind, e.sub.topic, zenoh_subscriber.id, id)]
               /\ pc' = [pc EXCEPT ![i] = "recv"]
               /\ orch' = [orch EXCEPT !.pc = "resolve", !.idx = i + 1,
                                       !.schema = None]
               /\ UNCHANGED <<subscribers, message_counter, payload,
                              delivered, sent, cadence, errlog, time_nanos>>
          ELSE /\ ReturnErr("ChannelError")
               /\ UNCHANGED <<subscribers, channels>>
    /\ UNCHANGED <<gpvars, config, declared, envvars>>

\* create_publisher(..).await and, when it succeeds, tokio::spawn of the loop
\* and the return to the for loop of start_foxglove_bridge.  When it fails
\* the starter returns and zenoh_subscriber is dropped (undeclared).
CreatePublisher(ok) ==
    /\ orch.pc = "provision"
    /\ LET i == orch.idx
           e == Entry(i)
           id == Cardinality(channels) + 1
       IN IF ok
          THEN /\ channels' = channels \cup
                    {[id |-> id, owner |-> i, topic |-> e.sub.topic,
                      encoding |-> unwrap(orch.schema).encoding,
                      schema_name |-> unwrap(orch.schema).schema_name,
                      schema |-> unwrap(orch.schema).schema,
                      schema_encoding |-> unwrap(orch.schema).schema_encoding,
                      latched |-> unwrap(orch.schema).latched]}
               /\ task' = [task EXCEPT ![i] =
                    SpawnedTask(e.kind, e.sub.topic, zenoh_subscriber.id, id)]
               /\ pc' = [pc EXCEPT ![i] = "recv"]
               /\ orch' = [orch EXCEPT !.pc = "resolve", !.idx = i + 1,
                                       !.schema = None]
               /\ UNCHANGED <<subscribers, message_counter, payload,
                              delivered, sent, cadence, errlog, time_nanos>>
          ELSE /\ ReturnErr("ChannelError")
               /\ subscribers' = subscribers \ {zenoh_subscriber}
               /\ UNCHANGED channels
    /\ UNCHANGED <<gpvars, config, declared, envvars>>

\* Line 101: every subscription was started.
ReturnOk ==
    /\ orch.pc = "resolve"
    /\ orch.idx > N
    /\ orch' = [orch EXCEPT !.pc = "done"]
    /\ UNCHANGED <<gpvars, config, declared, subscribers, channels, taskvars, envvars>>

\* -------------------------------------------------------------- forwarders
\* Vec<u8>::try_from(sample.value): the bytes of the value, or an error.
TryIntoBytes(s) == IF s.convertible THEN Some(s.value) ELSE None

\* String::try_from(sample.value): the text of the value, or an error.
TryIntoString(s) == IF s.convertible THEN Some([utf8 |-> s.value]) ELSE None

\* payload.as_bytes().to_vec()
as_bytes(str) == str.utf8

\* ExtractPayload with an unknown encoding handled as a conversion error.
ExtractPayload_DropUnknown(kind, s) ==
    IF s.convertible /\ (kind = "proto" \/ s.encoding # "Other")
    THEN [tag |-> "ok", bytes |-> s.value]
    ELSE [tag |-> "err"]


\* ExtractPayload with the typed loop matching on the encoding as the JSON
\* loop does.
ExtractPayload_MatchAlways(kind, s) ==
    IF s.encoding \in {"TextPlain", "TextJson"}
    THEN LET t == TryIntoString(s) IN
         IF t = None THEN [tag |-> "err"]
         ELSE [tag |-> "ok", bytes |-> as_bytes(unwrap(t))]
    ELSE IF s.encoding = "AppOctetStream"
         THEN LET b == TryIntoBytes(s) IN
              IF b = None THEN [tag |-> "err"]
              ELSE [tag |-> "ok", bytes |-> unwrap(b)]
         ELSE [tag |-> "panic"]

\* ExtractPayload with no arm for AppOctetStream in the match of the JSON
\* loop.
ExtractPayload_NoOctetArm(kind, s) ==
    IF kind = "proto"
    THEN LET b == TryIntoBytes(s) IN
         IF b = None THEN [tag |-> "err"]
         ELSE [tag |-> "ok", bytes |-> unwrap(b)]
    ELSE IF s.encoding \in {"TextPlain", "TextJson"}
         THEN LET t == TryIntoString(s) IN
              IF t = None THEN [tag |-> "err"]
              ELSE [tag |-> "ok", bytes |-> as_bytes(unwrap(t))]
         ELSE [tag |-> "panic"]

\* Lines 131 and 210-227: what the loop makes of a received sample.
\*   [tag |-> "ok", bytes |-> b]   the payload to send
\*   [tag |-> "err"]               the conversion failed (`?`)
\*   [tag |-> "panic"]             panic!("Unknown encoding")
ExtractPayload(kind, s) ==
    IF kind = "proto"
    THEN LET b == TryIntoBytes(s) IN
         IF b = None THEN [tag |-> "err"]
         ELSE [tag |-> "ok", bytes |-> unwrap(b)]
    ELSE IF s.encoding \in {"TextPlain", "TextJson"}
         THEN LET t == TryIntoString(s) IN
              IF t = None THEN [tag |-> "err"]
              ELSE [tag |-> "ok", bytes |-> as_bytes(unwrap(t))]
         ELSE IF s.encoding = "AppOctetStream"
              THEN LET b == TryIntoBytes(s) IN
                   IF b = None THEN [tag |-> "err"]
                   ELSE [tag |-> "ok", bytes |-> unwrap(b)]
              ELSE [tag |-> "panic"]


\* system_time_to_nanos with the range check left out: the cast to u64
\* keeps the low bits.
system_time_to_nanos_Wrap(d) ==
    IF d < UNIX_EPOCH THEN None
    ELSE Some((d - UNIX_EPOCH) % (U64_MAX + 1))


\* system_time_to_nanos with a time out of range clamped to the nearest
\* u64 and returned.
system_time_to_nanos_Saturate(d) ==
    IF d < UNIX_EPOCH THEN Some(0)
    ELSE IF d - UNIX_EPOCH > U64_MAX THEN Some(U64_MAX)
         ELSE Some((d - UNIX_EPOCH) % (U64_MAX + 1))

\* Lines 269-273: the nanoseconds from UNIX_EPOCH to d as a u64, or None
\* where the function panics: duration_since(UNIX_EPOCH).unwrap() on a time
\* before the epoch, assert!(ns <= u64::MAX) on one too far after it.
system_time_to_nanos(d) ==
    IF d < UNIX_EPOCH THEN None
    ELSE IF d - UNIX_EPOCH > U64_MAX THEN None
         ELSE Some((d - UNIX_EPOCH) % (U64_MAX + 1))

Started(i) == task[i] # None
Sub(i) == unwrap(task[i]).zenoh_subscriber
Chan(i) == unwrap(task[i]).foxglove_channel

\* LogErrorAndLoop with the loop left on the first error.
LogErrorAndLoop_Break(i, what) ==
    /\ errlog' = [errlog EXCEPT ![i] = Append(@, what)]
    /\ pc' = [pc EXCEPT ![i] = "exited"]

\* The `if let Err(err) = res` of the loop: the error is logged and the loop
\* goes round again.
LogErrorAndLoop(i, what) ==
    /\ errlog' = [errlog EXCEPT ![i] = Append(@, what)]
    /\ pc' = [pc EXCEPT ![i] = "recv"]

\* recv_async().await returned the sample s: the counter is incremented, the
\* wall clock read and converted, and the payload extracted; up to the call
\* of foxglove_channel.send.  A panic (of system_time_to_nanos, or the
\* panic! of the JSON loop) unwinds inside a task made by tokio::spawn: the
\* runtime catches it and that task alone ends ("panicked").
RecvSample(i, s) ==
    /\ Started(i)
    /\ pc[i] = "recv"
    /\ Sub(i) \notin closed
    /\ message_counter' = [message_counter EXCEPT ![i] = @ + 1]
    /\ delivered' = [delivered EXCEPT ![Sub(i)] = Append(@, s)]
    /\ LET t == system_time_to_nanos(clock)
           r == ExtractPayload(unwrap(task[i]).kind, s)
       IN IF t = None
          THEN /\ pc' = [pc EXCEPT ![i] = "panicked"]
               /\ UNCHANGED <<payload, errlog, time_nanos>>
          ELSE /\ time_nanos' = [time_nanos EXCEPT ![i] = unwrap(t)]
               /\ CASE r.tag = "ok" ->
                         /\ payload' = [payload EXCEPT ![i] = Some(r.bytes)]
                         /\ pc' = [pc EXCEPT ![i] = "send"]
                         /\ UNCHANGED errlog
                    [] r.tag = "err" ->
                         /\ LogErrorAndLoop(i, "decode")
                         /\ UNCHANGED payload
                    [] r.tag = "panic" ->
                         /\ errlog' = [errlog EXCEPT ![i] = Append(@, "encoding")]
                         /\ pc' = [pc EXCEPT ![i] = "panicked"]
                         /\ UNCHANGED payload
    /\ UNCHANGED <<gpvars, config, orch, declared, subscribers, channels, task, sent,
                   cadence, envvars>>



\* RecvError with the counter incremented before recv_async is awaited.
RecvError_Counts(i) ==
    /\ Started(i)
    /\ pc[i] = "recv"
    /\ Sub(i) \in closed
    /\ message_counter' = [message_counter EXCEPT ![i] = @ + 1]
    /\ errlog' = [errlog EXCEPT ![i] = Append(@, "recv")]
    /\ pc' = [pc EXCEPT ![i] = "recv"]
    /\ UNCHANGED <<gpvars, config, orch, declared, subscribers, channels, task,
                   payload, delivered, sent, cadence, time_nanos, envvars>>

\* RecvError with the loop left when recv_async fails.
RecvError_Exit(i) ==
    /\ Started(i)
    /\ pc[i] = "recv"
    /\ Sub(i) \in closed
    /\ errlog' = [errlog EXCEPT ![i] = Append(@, "recv")]
    /\ pc' = [pc EXCEPT ![i] = "exited"]
    /\ UNCHANGED <<gpvars, config, orch, declared, subscribers, channels, task,
                   message_counter, payload, delivered, sent, cadence,
                   time_nanos, envvars>>

\* recv_async().await returned an error (the subscription is closed): `?`
\* leaves the async block, the error is logged and the loop goes round.
RecvError(i) ==
    /\ Started(i)
    /\ pc[i] = "recv"
    /\ Sub(i) \in closed
    /\ LogErrorAndLoop(i, "recv")
    /\ UNCHANGED <<gpvars, config, orch, declared, subscribers, channels, task,
                   message_counter, payload, delivered, sent, cadence,
                   time_nanos, envvars>>

\* SendDone with one send path shared by all channels: a stalled channel
\* holds back the sends of every other channel.
SendDone_SharedPath(i, ok) ==
    /\ Started(i)
    /\ pc[i] = "send"
    /\ stalled = {}
    /\ sent' = [sent EXCEPT ![Chan(i)] =
                  Append(@, [payload |-> unwrap(payload[i]), ok |-> ok,
                             sample |-> Len(delivered[Sub(i)]),
                             time |-> time_nanos[i]])]
    /\ payload' = [payload EXCEPT ![i] = None]
    /\ IF ok
       THEN /\ cadence' = [cadence EXCEPT ![i] =
                 IF message_counter[i] % CadencePeriod = 0
                 THEN Append(@, message_counter[i]) ELSE @]
            /\ pc' = [pc EXCEPT ![i] = "recv"]
            /\ UNCHANGED errlog
       ELSE /\ errlog' = [errlog EXCEPT ![i] = Append(@, "send")]
            /\ pc' = [pc EXCEPT ![i] = "recv"]
            /\ UNCHANGED cadence
    /\ UNCHANGED <<gpvars, config, orch, declared, subscribers, channels, task,
                   message_counter, delivered, time_nanos, envvars>>

\* SendDone with a failed send tried again for the same payload.
SendDone_Retry(i, ok) ==
    /\ Started(i)
    /\ pc[i] = "send"
    /\ Chan(i) \notin stalled
    /\ sent' = [sent EXCEPT ![Chan(i)] =
                  Append(@, [payload |-> unwrap(payload[i]), ok |-> ok,
                             sample |-> Len(delivered[Sub(i)]),
                             time |-> time_nanos[i]])]
    /\ IF ok
       THEN /\ cadence' = [cadence EXCEPT ![i] =
                 IF message_counter[i] % CadencePeriod = 0
                 THEN Append(@, message_counter[i]) ELSE @]
            /\ payload' = [payload EXCEPT ![i] = None]
            /\ pc' = [pc EXCEPT ![i] = "recv"]
            /\ UNCHANGED errlog
       ELSE /\ errlog' = [errlog EXCEPT ![i] = Append(@, "send")]
            /\ UNCHANGED <<cadence, payload, pc>>
    /\ UNCHANGED <<gpvars, config, orch, declared, subscribers, channels, task,
                   message_counter, delivered, time_nanos, envvars>>

\* SendDone with the cadence line logged whether or not the send succeeded.
SendDone_LogAlways(i, ok) ==
    /\ Started(i)
    /\ pc[i] = "send"
    /\ Chan(i) \notin stalled
    /\ sent' = [sent EXCEPT ![Chan(i)] =
                  Append(@, [payload |-> unwrap(payload[i]), ok |-> ok,
                             sample |-> Len(delivered[Sub(i)]),
                             time |-> time_nanos[i]])]
    /\ payload' = [payload EXCEPT ![i] = None]
    /\ cadence' = [cadence EXCEPT ![i] =
         IF message_counter[i] % CadencePeriod = 0
         THEN Append(@, message_counter[i]) ELSE @]
    /\ pc' = [pc EXCEPT ![i] = "recv"]
    /\ errlog' = [errlog EXCEPT ![i] = IF ok THEN @ ELSE Append(@, "send")]
    /\ UNCHANGED <<gpvars, config, orch, declared, subscribers, channels, task,
                   message_counter, delivered, time_nanos, envvars>>


\* SendDone with the error of a failed send swallowed.
SendDone_Silent(i, ok) ==
    /\ Started(i)
    /\ pc[i] = "send"
    /\ Chan(i) \notin stalled
    /\ sent' = [sent EXCEPT ![Chan(i)] =
                  Append(@, [payload |-> unwrap(payload[i]), ok |-> ok,
                             sample |-> Len(delivered[Sub(i)]),
                             time |-> time_nanos[i]])]
    /\ payload' = [payload EXCEPT ![i] = None]
    /\ cadence' = [cadence EXCEPT ![i] =
         IF ok /\ message_counter[i] % CadencePeriod = 0
         THEN Append(@, message_counter[i]) ELSE @]
    /\ pc' = [pc EXCEPT ![i] = "recv"]
    /\ UNCHANGED errlog
    /\ UNCHANGED <<gpvars, config, orch, declared, subscribers, channels, task,
                   message_counter, delivered, time_nanos, envvars>>

\* foxglove_channel.send(..).await returned, with Ok or Err; the rest of the
\* loop body up to the next recv_async.
SendDone(i, ok) ==
    /\ Started(i)
    /\ pc[i] = "send"
    /\ Chan(i) \notin stalled
    /\ sent' = [sent EXCEPT ![Chan(i)] =
                  Append(@, [payload |-> unwrap(payload[i]), ok |-> ok,
                             sample |-> Len(delivered[Sub(i)]),
                             time |-> time_nanos[i]])]
    /\ payload' = [payload EXCEPT ![i] = None]
    /\ IF ok
       THEN /\ cadence' = [cadence EXCEPT ![i] =
                 IF message_counter[i] % CadencePeriod = 0
                 THEN Append(@, message_counter[i]) ELSE @]
            /\ pc' = [pc EXCEPT ![i] = "recv"]
            /\ UNCHANGED errlog
       ELSE /\ LogErrorAndLoop(i, "send")
            /\ UNCHANGED cadence
    /\ UNCHANGED <<gpvars, config, orch, declared, subscribers, channels, task,
                   message_counter, delivered, time_nanos, envvars>>

\* ------------------------------------------------------------- environment
\* The times the wall clock can show: from before the epoch to past the
\* largest time_nanos.
ClockValues == (UNIX_EPOCH - 1)..(UNIX_EPOCH + U64_MAX + 1)

\* The wall clock moves to t: time passes, or the clock is set.
Tick(t) ==
    /\ t # clock
    /\ clock' = t
    /\ skewed' = (skewed \/ t < clock)
    /\ UNCHANGED <<gpvars, config, orch, declared, subscribers, channels, taskvars,
                   closed, stalled>>

\* The bus closes the subscription of slot i (session closed, transport
\* failure): recv_async fails from now on.
CloseSubscription(i) ==
    /\ Started(i)
    /\ Sub(i) \notin closed
    /\ closed' = closed \cup {Sub(i)}
    /\ UNCHANGED <<gpvars, config, orch, declared, subscribers, channels, taskvars,
                   stalled, clock, skewed>>

\* The send path of the channel of slot i stops completing.
Stall(i) ==
    /\ Started(i)
    /\ Chan(i) \notin stalled
    /\ stalled' = stalled \cup {Chan(i)}
    /\ UNCHANGED <<gpvars, config, orch, declared, subscribers, channels, taskvars,
                   closed, clock, skewed>>

\* ------------------------------------------------------------ specification
RECURSIVE SumLen(_, _)
SumLen(f, S) ==
    IF S = {} THEN 0
    ELSE LET k == CHOOSE x \in S : TRUE IN Len(f[k]) + SumLen(f, S \ {k})

TotalDelivered == SumLen(delivered, Slots)

\* The failures the environment has injected so far: closed subscriptions,
\* stalled channels, and everything the forwarders logged as an error.
Faults == Cardinality(closed) + Cardinality(stalled) + SumLen(errlog, Slots)

\* The next sample the subscription of slot i can deliver.
NextSamples(i, encodings) == SamplesAt(Len(delivered[Sub(i)]) + 1, encodings)

IsFault(i, s) == ExtractPayload(unwrap(task[i]).kind, s).tag # "ok"

Next ==
    \/ ResolveSchema
    \/ \E ok \in BOOLEAN : DeclareSubscriber(ok)
    \/ \E ok \in BOOLEAN : CreatePublisher(ok)
    \/ ReturnOk
    \/ \E i \in Slots : Started(i) /\ \E s \in NextSamples(i, BridgeEncodings) :
         /\ TotalDelivered < MaxSamples
         /\ IsFault(i, s) => Faults < MaxFaults
         /\ RecvSample(i, s)
    \/ \E i \in Slots : Faults < MaxFaults /\ RecvError(i)
    \/ \E i \in Slots, ok \in BOOLEAN :
         /\ ~ok => Faults < MaxFaults
         /\ SendDone(i, ok)
    \/ \E i \in Slots : Faults < MaxFaults /\ CloseSubscription(i)
    \/ \E i \in Slots : Faults < MaxFaults /\ Stall(i)

Spec == Init /\ [][Next]_vars

\* ------------------------------------------ several forwarders, fair tasks
\* MaxTopics topics whose startup succeeds, and channels that may stall.  The
\* forwarder tasks are scheduled fairly: a send that can complete does.
StallConfigs ==
    {c \in BridgeConfigs :
        /\ Len(StartOrder(c)) = MaxTopics
        /\ \A k \in 1..MaxTopics : Resolve(StartOrder(c)[k]) # None}

InitStall ==
    /\ config \in StallConfigs
    /\ InitRest
    /\ reader = "main"

NextStall ==
    \/ ResolveSchema
    \/ DeclareSubscriber(TRUE)
    \/ CreatePublisher(TRUE)
    \/ ReturnOk
    \/ \E i \in Slots : Started(i) /\ \E s \in NextSamples(i, {"TextPlain"}) :
         /\ TotalDelivered < MaxSamples
         /\ IsFault(i, s) => Faults < MaxFaults
         /\ RecvSample(i, s)
    \/ \E i \in Slots, ok \in BOOLEAN :
         /\ ~ok => Faults < MaxFaults
         /\ SendDone(i, ok)
    \/ \E i \in Slots : Faults < MaxFaults /\ Stall(i)

SpecStall ==
    /\ InitStall
    /\ [][NextStall]_vars
    /\ \A i \in Slots : WF_vars(SendDone(i, TRUE))

\* --------------------------------------------- startup, every configuration
\* The startup of every configuration, with each of its steps failing or
\* not, and the forwarders already spawned handling a sample meanwhile.
InitStart ==
    /\ config \in Configuration
    /\ InitRest
    /\ reader = "main"

NextStart ==
    \/ ResolveSchema
    \/ \E ok \in BOOLEAN : DeclareSubscriber(ok)
    \/ \E ok \in BOOLEAN : CreatePublisher(ok)
    \/ ReturnOk
    \/ \E i \in Slots : Started(i) /\ \E s \in NextSamples(i, {"TextPlain"}) :
         /\ TotalDelivered < StartSamples
         /\ s.convertible
         /\ RecvSample(i, s)
    \/ \E i \in Slots : SendDone(i, TRUE)

SpecStart == InitStart /\ [][NextStart]_vars

\* ----------------------------------------------- one forwarder, every sample
\* One configured topic, typed or JSON, whose startup succeeds; its
\* subscription delivers samples of every encoding.
ForwarderConfigs ==
    {c \in Configuration :
        /\ Len(c.protobuf_subscriptions) + Len(c.json_subscriptions) = 1
        /\ Resolve(StartOrder(c)[1]) # None}

InitForwarder ==
    /\ config \in ForwarderConfigs
    /\ InitRest
    /\ reader = "main"

NextForwarder ==
    \/ ResolveSchema
    \/ DeclareSubscriber(TRUE)
    \/ CreatePublisher(TRUE)
    \/ ReturnOk
    \/ \E i \in Slots : Started(i) /\ \E s \in NextSamples(i, Encodings) :
         /\ TotalDelivered < ForwarderSamples
         /\ RecvSample(i, s)
    \/ \E i \in Slots : Faults < MaxFaults /\ RecvError(i)
    \/ \E i \in Slots, ok \in BOOLEAN : SendDone(i, ok)
    \/ \E i \in Slots : Faults < MaxFaults /\ CloseSubscription(i)

SpecForwarder == InitForwarder /\ [][NextForwarder]_vars

\* ------------------------------------------------ one forwarder, a long run
\* One typed topic whose subscription delivers CadenceSamples samples, of
\* which at most CadenceFaults fail to convert or to be sent.
CadenceConfigs ==
    {c \in ForwarderConfigs : Len(c.protobuf_subscriptions) = 1}

InitCadence ==
    /\ config \in CadenceConfigs
    /\ InitRest
    /\ reader = "main"

NextCadence ==
    \/ ResolveSchema
    \/ DeclareSubscriber(TRUE)
    \/ CreatePublisher(TRUE)
    \/ ReturnOk
    \/ \E i \in Slots : Started(i) /\
         \E s \in NextSamples(i, {"AppOctetStream"}) :
           /\ TotalDelivered < CadenceSamples
           /\ IsFault(i, s) => Faults < CadenceFaults
           /\ RecvSample(i, s)
    \/ \E i \in Slots, ok \in BOOLEAN :
         /\ ~ok => Faults < CadenceFaults
         /\ SendDone(i, ok)

SpecCadence == InitCadence /\ [][NextCadence]_vars

\* ------------------------------------------- one forwarder, the wall clock
\* One configured topic whose startup succeeds, with samples the loop
\* accepts and samples it does not, failing sends and a bus that may close
\* the subscription, while the wall clock moves forwards and backwards.  The
\* clock is read at the start of a round only, so it is moved only while a
\* loop waits in recv_async.
InitClock ==
    /\ config \in ForwarderConfigs
    /\ InitRest
    /\ reader = "main"

NextClock ==
    \/ ResolveSchema
    \/ DeclareSubscriber(TRUE)
    \/ CreatePublisher(TRUE)
    \/ ReturnOk
    \/ \E i \in Slots : Started(i) /\ \E s \in NextSamples(i, BridgeEncodings) :
         /\ TotalDelivered < ClockSamples
         /\ IsFault(i, s) => Faults < MaxFaults
         /\ RecvSample(i, s)
    \/ \E i \in Slots : Faults < MaxFaults /\ RecvError(i)
    \/ \E i \in Slots, ok \in BOOLEAN :
         /\ ~ok => Faults < MaxFaults
         /\ SendDone(i, ok)
    \/ \E i \in Slots : Faults < MaxFaults /\ CloseSubscription(i)
    \/ \E t \in ClockValues :
         /\ \E i \in Slots : Started(i) /\ pc[i] = "recv"
         /\ Tick(t)

SpecClock == InitClock /\ [][NextClock]_vars

\* ------------------------------------------------------- gamepad publisher
\* The gamepad ids the input library reports.
GamepadIds == {1, 2}

\* The events of gilrs in the runs of SpecGamepad: one that counts and one
\* that changes the entry without counting.
EventTypes == {"ButtonPressed", "Disconnected"}
GilrsEvents == [id : GamepadIds, event : EventTypes]

\* GamepadMessage::default()
DefaultGamepadMessage == [button_down_event_counter |-> 0, connected |-> FALSE]

\* message_data.gamepads.entry(id).or_default()
or_default(g, id) ==
    IF id \in DOMAIN g THEN g
    ELSE [k \in DOMAIN g \cup {id} |->
            IF k = id THEN DefaultGamepadMessage ELSE g[k]]

\* The body of `while let Some(gilrs_event) = gilrs.next_event()` for one
\* event.
ApplyEvent(g, ev) ==
    LET h == or_default(g, ev.id) IN
    CASE ev.event = "ButtonPressed" ->
           [h EXCEPT ![ev.id].button_down_event_counter = @ + 1]
      [] ev.event = "Disconnected" ->
           [h EXCEPT ![ev.id].connected = FALSE]
      [] OTHER -> h

RECURSIVE ApplyEvents(_, _)
ApplyEvents(g, evs) ==
    IF evs = <<>> THEN g
    ELSE ApplyEvents(ApplyEvent(g, Head(evs)), Tail(evs))

\* The body of `for (gamepad_id, gamepad) in gilrs.gamepads()`, for the set
\* of gamepads the library enumerates.
Enumerate(g, pads) ==
    [k \in DOMAIN g \cup pads |->
        IF k \in pads
        THEN [or_default(g, k)[k] EXCEPT !.connected = TRUE]
        ELSE g[k]]

\* retain with every entry kept.
retain_All(g, ids) == g

\* message_data.gamepads.retain(|gamepad_id, _| known_ids.contains(gamepad_id))
retain(g, ids) == [k \in DOMAIN g \cap ids |-> g[k]]

\* The Ctrl-C handler of main: keep_running.store(false).
CtrlC ==
    /\ reader = "main"
    /\ keep_running
    /\ keep_running' = FALSE
    /\ UNCHANGED <<bridgevars, reader, gp_pc, gamepads, known_ids, events,
                   json, published, result>>

\* LoopHead with the flag never looked at.
LoopHead_Ignore ==
    /\ gp_pc = "head"
    /\ gp_pc' = "body"
    /\ UNCHANGED result
    /\ UNCHANGED <<bridgevars, reader, keep_running, gamepads, known_ids,
                   events, json, published>>

\* The head of the loop: `while keep_running.load(..)` in main, which
\* returns Ok(()) once the flag is cleared; `loop` in start_gamepad_reader.
LoopHead ==
    /\ gp_pc = "head"
    /\ IF reader = "main" /\ ~keep_running
       THEN gp_pc' = "done" /\ result' = Some("Ok")
       ELSE gp_pc' = "body" /\ UNCHANGED result
    /\ UNCHANGED <<bridgevars, reader, keep_running, gamepads, known_ids,
                   events, json, published>>

\* The body of the loop up to the put: the events are drained, the gamepads
\* enumerated, the entries of gamepads not enumerated removed and the
\* message serialized; a serialization error is returned with `?`.
Iterate(evs, pads, ok) ==
    /\ gp_pc = "body"
    /\ events' = evs
    /\ known_ids' = pads
    /\ gamepads' = retain(Enumerate(ApplyEvents(gamepads, evs), pads), pads)
    /\ IF ok
       THEN /\ json' = Some([gamepads |-> gamepads'])
            /\ gp_pc' = "put"
            /\ UNCHANGED result
       ELSE /\ json' = None
            /\ gp_pc' = "failed"
            /\ result' = Some("SerdeError")
    /\ UNCHANGED <<bridgevars, reader, keep_running, published>>

\* PutDone with a failed put logged and skipped, as the bridge forwarders do.
PutDone_Skip(ok) ==
    /\ gp_pc = "put"
    /\ json' = None
    /\ gp_pc' = "sleep"
    /\ published' = IF ok THEN Append(published,
                         [message |-> unwrap(json), known_ids |-> known_ids,
                          keep_running |-> keep_running])
                    ELSE published
    /\ UNCHANGED result
    /\ UNCHANGED <<bridgevars, reader, keep_running, gamepads, known_ids,
                   events>>

\* gamepad_publisher.put(json).res().await returned: the message is on the
\* bus, or the error is returned with `?`.
PutDone(ok) ==
    /\ gp_pc = "put"
    /\ json' = None
    /\ IF ok
       THEN /\ published' = Append(published,
                 [message |-> unwrap(json), known_ids |-> known_ids,
                  keep_running |-> keep_running])
            /\ gp_pc' = "sleep"
            /\ UNCHANGED result
       ELSE /\ gp_pc' = "failed"
            /\ result' = Some("ZenohError")
            /\ UNCHANGED published
    /\ UNCHANGED <<bridgevars, reader, keep_running, gamepads, known_ids,
                   events>>

\* tokio::time::sleep_until(..).await returned.
Wake ==
    /\ gp_pc = "sleep"
    /\ gp_pc' = "head"
    /\ UNCHANGED <<bridgevars, reader, keep_running, gamepads, known_ids,
                   events, json, published, result>>

\* The bridge is not started in the runs of the gamepad publisher.
NoSubscriptions == [protobuf_subscriptions |-> <<>>, json_subscriptions |-> <<>>]

InitGamepad ==
    /\ config = NoSubscriptions
    /\ InitRest
    /\ reader \in {"main", "start_gamepad_reader"}

\* The iterations begun so far, the one in progress included.
Iterations == Len(published) + (IF gp_pc \in {"body", "put", "failed"} THEN 1 ELSE 0)

NextGamepad ==
    \/ CtrlC
    \/ /\ (reader = "main" => keep_running) => Iterations < MaxIterations
       /\ LoopHead
    \/ \E evs \in SeqsUpTo(GilrsEvents, MaxEvents), pads \in SUBSET GamepadIds,
          ok \in BOOLEAN : Iterate(evs, pads, ok)
    \/ \E ok \in BOOLEAN : PutDone(ok)
    \/ Wake

\* The loop is a task of the runtime: a step it can take, it takes.
SpecGamepad ==
    /\ InitGamepad
    /\ [][NextGamepad]_vars
    /\ WF_vars(/\ (reader = "main" => keep_running) => Iterations < MaxIterations
               /\ LoopHead)
    /\ WF_vars(\E evs \in SeqsUpTo(GilrsEvents, MaxEvents),
                  pads \in SUBSET GamepadIds, ok \in BOOLEAN :
                    Iterate(evs, pads, ok))
    /\ WF_vars(\E ok \in BOOLEAN : PutDone(ok))
    /\ WF_vars(Wake)

\* ================================================================== claims
Range(f) == {f[k] : k \in DOMAIN f}
Kind(i) == unwrap(task[i]).kind
Running(i) == pc[i] \in {"recv", "send"}
OwnedSubscribers(j) == {x \in subscribers : x.owner = j}
OwnedChannels(j) == {c \in channels : c.owner = j}
NothingStarted(j) ==
    /\ ~Started(j)
    /\ pc[j] = "none"
    /\ OwnedSubscribers(j) = {}
    /\ OwnedChannels(j) = {}

\* The samples of slot i the loop is done with: all those delivered, but for
\* the one whose payload is being sent.
Processed(i) ==
    LET D == delivered[Sub(i)] IN
    SubSeq(D, 1, IF pc[i] = "send" THEN Len(D) - 1 ELSE Len(D))

IsConvertible(s) == s.convertible
PayloadsSent(i) ==
    [k \in 1..Len(sent[Chan(i)]) |-> sent[Chan(i)][k].payload]
ValuesOf(D) == [k \in 1..Len(D) |-> D[k].value]

\* C1: per-message isolation.  A forwarder (typed or JSON) whose samples all
\* have an encoding its loop accepts has called send, in the order received,
\* for exactly the samples whose value conversion succeeded, for none of the
\* samples whose conversion failed, and its loop is still running.
C1_PerMessageIsolation ==
    \A i \in Slots :
        (Started(i) /\
         \A n \in DOMAIN delivered[Sub(i)] :
            Kind(i) = "json" => delivered[Sub(i)][n].encoding # "Other")
        => /\ Running(i)
           /\ PayloadsSent(i) = ValuesOf(SelectSeq(Processed(i), IsConvertible))

C1_Witness ==
    \E i \in Slots :
        /\ Started(i)
        /\ pc[i] = "recv"
        /\ Len(delivered[Sub(i)]) = 3
        /\ delivered[Sub(i)][1].convertible
        /\ ~delivered[Sub(i)][2].convertible
        /\ delivered[Sub(i)][3].convertible
        /\ PayloadsSent(i) = <<1, 3>>

\* C2 as stated: when the lookup of some topic's type fails, no channel, no
\* bus subscription and no forwarder task was created for any topic.
C2_Original ==
    orch.err = Some("SchemaNotFound") =>
        /\ declared = 0
        /\ channels = {}
        /\ \A j \in Slots : ~Started(j)

\* C2 (amended): when the lookup of topic i's type fails, the orchestration
\* has created no channel, no bus subscription and no task for topic i and
\* for every topic after it; every topic before i has its subscription, its
\* channel and its task.
C2_FatalStartupIsolation ==
    orch.err = Some("SchemaNotFound") =>
        /\ Resolve(Entry(orch.idx)) = None
        /\ declared = orch.idx - 1
        /\ Cardinality(channels) = orch.idx - 1
        /\ \A j \in Slots :
             /\ j >= orch.idx => NothingStarted(j)
             /\ j < orch.idx =>
                  /\ Started(j)
                  /\ Cardinality(OwnedSubscribers(j)) = 1
                  /\ Cardinality(OwnedChannels(j)) = 1

C2_Witness ==
    /\ orch.err = Some("SchemaNotFound")
    /\ orch.idx = 2
    /\ Started(1)
    /\ Entry(2).kind = "proto"

\* C3: eager fail.  Once a startup step of some topic has failed, the
\* orchestration has returned that error (a failed lookup, and only that, as
\* SchemaNotFound), and no bus subscription, channel or task exists for any
\* topic after the failing one.
C3_EagerFail ==
    orch.err # None =>
        /\ orch.pc = "failed"
        /\ orch.err = Some("SchemaNotFound") <=> Resolve(Entry(orch.idx)) = None
        /\ declared <= orch.idx
        /\ \A j \in Slots : j > orch.idx => NothingStarted(j)

C3_Witness ==
    /\ orch.pc = "failed"
    /\ orch.idx < N
    /\ orch.err \in {Some("ZenohError"), Some("ChannelError")}

\* C4 as stated: when a startup step of one topic has failed, every other
\* configured topic has been started all the same.
C4_Original ==
    orch.pc = "failed" => \A j \in 1..N : j # orch.idx => Started(j)

\* C4 (amended): a failure during the Starting phase of one topic leaves
\* that topic and every topic after it without a task; it does not stop the
\* forwarders of the topics before it, which can go on receiving and
\* sending.
C4_StartFailure ==
    orch.err # None =>
        \A j \in 1..N :
            /\ j >= orch.idx => ~Started(j) /\ pc[j] = "none"
            /\ j < orch.idx =>
                 /\ Started(j)
                 /\ Running(j) \/ "encoding" \in Range(errlog[j])
                 /\ (pc[j] = "send" /\ Chan(j) \notin stalled)
                      => ENABLED SendDone(j, TRUE)
                 /\ (pc[j] = "recv" /\ Sub(j) \notin closed)
                      => ENABLED (\E s \in NextSamples(j, Encodings) :
                                     RecvSample(j, s))

C4_Witness ==
    /\ orch.err # None
    /\ orch.idx = 2
    /\ N = 2
    /\ pc[1] = "send"
    /\ Len(sent[Chan(1)]) = 1

\* C5: within one topic, every call of send carries the bytes of a sample
\* the topic's subscription delivered, and the calls follow the order of
\* delivery: no sample is sent twice and no two are swapped.
C5_OrderPreserved ==
    \A i \in Slots : Started(i) =>
        LET S == sent[Chan(i)]
            D == delivered[Sub(i)]
        IN \A k \in DOMAIN S :
              /\ S[k].sample \in DOMAIN D
              /\ S[k].payload = D[S[k].sample].value
              /\ k > 1 => S[k - 1].sample < S[k].sample

C5_Witness ==
    \E i \in Slots :
        /\ Started(i)
        /\ Len(sent[Chan(i)]) = 3
        /\ ~sent[Chan(i)][2].ok
        /\ sent[Chan(i)][3].ok

\* C6 as stated: a forwarder whose receive has failed (its subscription was
\* closed) has left its loop.
C6_CrashedOnClose ==
    \A i \in Slots :
        (Started(i) /\ "recv" \in Range(errlog[i])) => ~Running(i)

Last(q) == q[Len(q)]

\* C7 as stated: once a JSON forwarder has met an unknown encoding, no
\* forwarder of any topic sends any further message (no send on any channel
\* succeeds any more).
IsOk(e) == e.ok
Delivered(c) == SelectSeq(sent[c], IsOk)

C7_Original ==
    [][(\E i \in Slots : pc[i] = "panicked")
          => \A c \in Slots : Delivered(c)' = Delivered(c)]_vars

\* C7 (amended): a JSON forwarder that receives a sample whose encoding is
\* none of text/plain, text/json and octet-stream panics; the panic ends
\* that forwarder's task and no other: from then on that forwarder receives
\* and sends nothing, and the forwarder of no other topic is stopped by it.
C7_UnknownEncoding ==
    [][\A i \in Slots : Started(i) =>
          /\ ( /\ Kind(i) = "json"
               /\ Len(delivered'[Sub(i)]) > Len(delivered[Sub(i)])
               /\ Last(delivered'[Sub(i)]).encoding = "Other" )
             => /\ pc'[i] = "panicked"
                /\ \A j \in Slots \ {i} : pc'[j] = pc[j]
          /\ pc[i] = "panicked"
             => /\ pc'[i] = "panicked"
                /\ sent'[Chan(i)] = sent[Chan(i)]
                /\ delivered'[Sub(i)] = delivered[Sub(i)]
                /\ message_counter'[i] = message_counter[i]
      ]_vars

C7_Witness ==
    \E i, j \in Slots :
        /\ i # j
        /\ pc[i] = "panicked"
        /\ Started(j)
        /\ Running(j)
        /\ Len(sent[Chan(j)]) > 0

\* C8 as stated: a forwarder that has processed n samples has logged
\* floor(n / 20) cadence lines.
C8_Original ==
    \A i \in Slots :
        (Started(i) /\ pc[i] = "recv")
        => Len(cadence[i]) = message_counter[i] \div CadencePeriod

IsCadenceSend(e) == e.ok /\ e.sample % CadencePeriod = 0
SamplesOf(S) == [k \in 1..Len(S) |-> S[k].sample]

\* C8 (amended): the cadence lines of a forwarder are, in order, the counts
\* that are multiples of 20 and whose sample was converted and sent with
\* success; there are at most floor(n / 20) of them after n samples, and
\* exactly floor(n / 20) when no sample has failed.
C8_Cadence ==
    \A i \in Slots : Started(i) =>
        /\ message_counter[i] = Len(delivered[Sub(i)])
        /\ cadence[i] = SamplesOf(SelectSeq(sent[Chan(i)], IsCadenceSend))
        /\ Len(cadence[i]) <= message_counter[i] \div CadencePeriod
        /\ (errlog[i] = <<>> /\ pc[i] = "recv")
             => Len(cadence[i]) = message_counter[i] \div CadencePeriod

C8_Witness ==
    \E i \in Slots :
        /\ Started(i)
        /\ pc[i] = "recv"
        /\ message_counter[i] = 2 * CadencePeriod + 1
        /\ cadence[i] = <<2 * CadencePeriod>>

StalledInSend(a) == Started(a) /\ pc[a] = "send" /\ Chan(a) \in stalled

\* The send call for the n-th sample of slot b has returned.
SendReturned(b, n) ==
    Started(b) /\ \E k \in DOMAIN sent[Chan(b)] : sent[Chan(b)][k].sample = n

\* C10: isolation under stall.  While the send of topic A does not complete,
\* A's loop stays in that send and takes no further sample from its
\* subscription; and whenever A is stalled and another topic B has handed a
\* payload to a channel that is not stalled, B's send returns (B's task
\* being scheduled fairly).
C10_StallIsolation ==
    /\ [][\A a \in Slots : StalledInSend(a) =>
             /\ pc'[a] = "send"
             /\ delivered'[Sub(a)] = delivered[Sub(a)]
             /\ message_counter'[a] = message_counter[a]]_vars
    /\ \A a \in Slots : \A b \in Slots \ {a} : \A n \in 1..MaxSamples :
          ( /\ StalledInSend(a)
            /\ Started(b) /\ pc[b] = "send" /\ Chan(b) \notin stalled
            /\ Len(delivered[Sub(b)]) = n )
          ~> (SendReturned(b, n) \/ (Started(b) /\ Chan(b) \in stalled))

C10_Witness ==
    \E a \in Slots : \E b \in Slots \ {a} :
        /\ StalledInSend(a)
        /\ SendReturned(b, 1)

\* ------------------------------------------------------- claims C11 to C20
\* The subscription of the configuration that slot i was started for, read
\* from the configuration itself: protobuf_subscriptions come first.
IsTyped(i) == i <= Len(config.protobuf_subscriptions)
TypedSub(i) == config.protobuf_subscriptions[i]
JsonSub(i) == config.json_subscriptions[i - Len(config.protobuf_subscriptions)]

\* C11: channel encoding correctness.  For every configuration, every channel
\* provisioned for a typed subscription has encoding "protobuf" and
\* schema-encoding hint "protobuf", and every channel provisioned for a JSON
\* subscription has encoding "json" and schema-encoding hint "jsonschema".
C11_ChannelEncoding ==
    \A ch \in channels :
        IF IsTyped(ch.owner)
        THEN ch.encoding = "protobuf" /\ ch.schema_encoding = "protobuf"
        ELSE ch.encoding = "json" /\ ch.schema_encoding = "jsonschema"

C11_Witness ==
    \E a \in channels, b \in channels :
        /\ IsTyped(a.owner) /\ a.encoding = "protobuf"
        /\ ~IsTyped(b.owner) /\ b.schema_encoding = "jsonschema"

\* C12: latched pass-through.  The channel of a JSON subscription configured
\* with latched = true is latched; the channel of a JSON subscription with
\* latched left out or false is not latched; the channel of a typed
\* subscription is never latched.
C12_LatchedPassThrough ==
    \A ch \in channels :
        IF IsTyped(ch.owner)
        THEN ch.latched = FALSE
        ELSE ch.latched = (JsonSub(ch.owner).latched = Some(TRUE))

C12_Witness ==
    \E a \in channels, b \in channels :
        /\ ~IsTyped(a.owner) /\ JsonSub(a.owner).latched = Some(TRUE)
        /\ a.latched
        /\ ~IsTyped(b.owner) /\ JsonSub(b.owner).latched = None
        /\ ~b.latched

\* The subscription slot i is for, as the configuration lists it.
ConfiguredKind(i) == IF IsTyped(i) THEN "proto" ELSE "json"
ConfiguredTopic(i) == IF IsTyped(i) THEN TypedSub(i).topic ELSE JsonSub(i).topic
Configured == 1..(Len(config.protobuf_subscriptions) + Len(config.json_subscriptions))

\* Slot i is fully started: it has its subscription, its channel and its task.
FullyStarted(i) ==
    /\ Started(i)
    /\ Cardinality(OwnedSubscribers(i)) = 1
    /\ Cardinality(OwnedChannels(i)) = 1

\* In every state the topics before the one the orchestrator works on are
\* fully started, for the subscriptions of the configuration in the order
\* typed-then-JSON, and nothing exists for the topics after it.
StartedInOrder ==
    \A i \in Slots :
        /\ i < orch.idx => /\ i \in Configured
                           /\ FullyStarted(i)
                           /\ unwrap(task[i]).kind = ConfiguredKind(i)
                           /\ unwrap(task[i]).topic = ConfiguredTopic(i)
                           /\ \A ch \in OwnedChannels(i) :
                                ch.id = i /\ ch.topic = ConfiguredTopic(i)
        /\ i = orch.idx => ~Started(i)
        /\ i > orch.idx => NothingStarted(i)

\* A step of the forwarder of slot i: its position, counter, payload or
\* logs change, or a sample is delivered to it or a send of it is recorded.
ForwarderStep(i) ==
    /\ Started(i)
    /\ \/ pc[i]' # pc[i]
       \/ message_counter[i]' # message_counter[i]
       \/ payload[i]' # payload[i]
       \/ errlog[i]' # errlog[i]
       \/ cadence[i]' # cadence[i]
       \/ delivered[Sub(i)]' # delivered[Sub(i)]
       \/ sent[Chan(i)]' # sent[Chan(i)]

\* A step of a forwarder leaves the orchestrator and every other forwarder
\* where they are; a step of the orchestrator leaves every forwarder already
\* started where it is.
SeparateTasks ==
    /\ \A i \in Slots : ForwarderStep(i) =>
         /\ orch' = orch
         /\ \A j \in Slots \ {i} : ~ForwarderStep(j)
    /\ orch' # orch => \A i \in Slots : ~ForwarderStep(i)

\* C13: start order.  Topics are started one at a time, the typed
\* subscriptions in configuration order and then the JSON subscriptions in
\* configuration order; the startup of a topic is complete before the startup
\* of the next one begins; the loop of each topic is a task of its own, apart
\* from the orchestrator and from the loops of the other topics.
C13_StartOrder == []StartedInOrder /\ [][SeparateTasks]_vars

\* The loop of the first (typed) topic has sent a sample while the
\* orchestrator is in the middle of starting the second (JSON) topic.
C13_Witness ==
    /\ orch.idx = 2
    /\ orch.pc = "provision"
    /\ ConfiguredKind(1) = "proto"
    /\ ConfiguredKind(2) = "json"
    /\ FullyStarted(1)
    /\ SendReturned(1, 1)

\* The schema the table holds for the name a JSON subscription is configured
\* with.
IsGenericJson(i) == JsonSub(i).json_schema_name = None
InTable(i) ==
    /\ ~IsGenericJson(i)
    /\ unwrap(JsonSub(i).json_schema_name) \in
         {"GENERIC_JSON_SCHEMA", "IKEA_DIMMER_JSON_SCHEMA",
          "MOTION_SENSOR_JSON_SCHEMA", "CONTACT_SENSOR_JSON_SCHEMA",
          "CLIMATE_SENSOR_JSON_SCHEMA", "VOICE_PROBABILITY_JSON_SCHEMA"}

\* The lookup of the subscription the orchestrator works on has failed.
ResolutionFailedAt(i) ==
    orch.pc = "failed" /\ orch.idx = i /\ orch.err = Some("SchemaNotFound")

\* The orchestrator is past the lookup of slot i.
PastResolution(i) ==
    \/ orch.idx > i
    \/ orch.idx = i /\ orch.pc \in {"subscribe", "provision", "failed"}

\* C14: JSON schema resolution.  A JSON subscription with no schema name never
\* fails resolution and its channel has the generic permissive schema; one
\* whose schema name is in the table has its channel provisioned with the
\* table's entry; one whose name is not in the table fails startup, and no
\* bus subscription and no channel is ever created for its topic.
C14_JsonSchemaResolution ==
    \A i \in Configured : ~IsTyped(i) =>
        /\ IsGenericJson(i) =>
             /\ ~ResolutionFailedAt(i)
             /\ \A ch \in OwnedChannels(i) :
                  ch.schema = GENERIC_JSON_SCHEMA
        /\ InTable(i) =>
             /\ ~ResolutionFailedAt(i)
             /\ \A ch \in OwnedChannels(i) :
                  ch.schema = json_schema_table[unwrap(JsonSub(i).json_schema_name)]
        /\ (~IsGenericJson(i) /\ ~InTable(i)) =>
             /\ NothingStarted(i)
             /\ PastResolution(i) => ResolutionFailedAt(i)

C14_Witness ==
    /\ Configured = {1, 2}
    /\ ~IsTyped(1)
    /\ JsonSub(1).json_schema_name = Some("IKEA_DIMMER_JSON_SCHEMA")
    /\ \E ch \in OwnedChannels(1) : ch.schema = IKEA_DIMMER_JSON_SCHEMA
    /\ JsonSub(2).json_schema_name = Some("NO_SUCH_SCHEMA")
    /\ ResolutionFailedAt(2)

\* C15: schema resolution is total over the descriptor pool.  For a typed
\* subscription whose proto_type is in the pool, resolution does not fail and
\* the channel is provisioned with the proto_type as its schema name; for a
\* proto_type the pool lacks, resolution fails and no channel is provisioned
\* for the topic.
C15_TypedResolution ==
    \A i \in Configured : IsTyped(i) =>
        IF TypedSub(i).proto_type \in DESCRIPTOR_POOL
        THEN /\ ~ResolutionFailedAt(i)
             /\ \A ch \in OwnedChannels(i) :
                  ch.schema_name = TypedSub(i).proto_type
        ELSE /\ OwnedChannels(i) = {}
             /\ PastResolution(i) => ResolutionFailedAt(i)

C15_Witness ==
    /\ Configured = {1, 2}
    /\ IsTyped(2)
    /\ \E ch \in OwnedChannels(1) : ch.schema_name = "Known.Msg"
    /\ TypedSub(2).proto_type = "Missing.Msg"
    /\ ResolutionFailedAt(2)

\* The timestamps of the calls of send on the channel of slot i, in order.
TimesSent(i) == [k \in 1..Len(sent[Chan(i)]) |-> sent[Chan(i)][k].time]
NonDecreasing(T) == \A k \in 1..(Len(T) - 1) : T[k] <= T[k + 1]

\* C16: timestamp monotonicity.  As long as the wall clock has never gone
\* backwards, of any two messages sent one after the other on the channel of
\* a topic the later has a time_nanos greater than or equal to that of the
\* earlier.
C16_TimestampMonotone ==
    \A i \in Slots : (Started(i) /\ ~skewed) => NonDecreasing(TimesSent(i))

C16_Witness ==
    \E i \in Slots :
        /\ Started(i)
        /\ ~skewed
        /\ Len(TimesSent(i)) = 2
        /\ TimesSent(i)[1] < TimesSent(i)[2]

\* The loop of slot i ends in this step.
LeavesRunning(i) == Running(i) /\ ~Running(i)'

\* The sample the loop of slot i has just been given is a JSON sample of an
\* encoding the loop does not support.
UnsupportedEncodingCase(i) ==
    /\ Kind(i) = "json"
    /\ Len(delivered[Sub(i)]') = Len(delivered[Sub(i)]) + 1
    /\ Last(delivered[Sub(i)]').encoding = "Other"

\* The wall clock the loop of slot i has just read is before the epoch or
\* beyond the range of time_nanos.
ClockOutOfRange(i) ==
    /\ Len(delivered[Sub(i)]') = Len(delivered[Sub(i)]) + 1
    /\ (clock < 0 \/ clock > U64_MAX)

IsFailed(x) == ~x.ok
IsSendError(w) == w = "send"

\* The send of slot i returns an error in this step.
SendFails(i) ==
    /\ Started(i)
    /\ pc[i] = "send"
    /\ Len(sent[Chan(i)]') = Len(sent[Chan(i)]) + 1
    /\ ~Last(sent[Chan(i)]').ok

\* Every failed send of slot i was logged, and the sample of a failed send
\* was handed to the channel that one time only.
FailedSendsLoggedOnce(i) ==
    LET S == sent[Chan(i)] IN
    /\ Len(SelectSeq(S, IsFailed)) = Len(SelectSeq(errlog[i], IsSendError))
    /\ \A k \in DOMAIN S : ~S[k].ok =>
          \A m \in DOMAIN S : S[m].sample = S[k].sample => m = k

\* The last send of slot i failed and the loop is back at recv_async with
\* its subscription open.
AfterFailedSend(i) ==
    /\ pc[i] = "recv"
    /\ Sub(i) \notin closed
    /\ sent[Chan(i)] # <<>>
    /\ ~Last(sent[Chan(i)]).ok

\* The loop of slot i takes the next sample of its subscription.
CanReceiveNext(i) ==
    ENABLED RecvSample(i, [encoding |-> "AppOctetStream",
                           value |-> Len(delivered[Sub(i)]) + 1,
                           convertible |-> TRUE])

\* C18: a failed send of sample k is caught and logged; sample k is not
\* retried or sent again later; the loop goes on to receive sample k+1, so
\* the failure does not keep later samples of the topic from being sent.
C18_FailedSend ==
    /\ [](\A i \in Slots : Started(i) =>
            /\ FailedSendsLoggedOnce(i)
            /\ AfterFailedSend(i) => CanReceiveNext(i))
    /\ [][\A i \in Slots : SendFails(i) =>
            /\ errlog'[i] = Append(errlog[i], "send")
            /\ payload'[i] = None
            /\ pc'[i] = "recv"]_vars

C18_Witness ==
    \E i \in Slots :
        /\ Started(i)
        /\ Len(sent[Chan(i)]) = 2
        /\ sent[Chan(i)][1].sample = 1 /\ ~sent[Chan(i)][1].ok
        /\ sent[Chan(i)][2].sample = 2 /\ sent[Chan(i)][2].ok
        /\ errlog[i] = <<"send">>

\* The loop of slot i, of the given kind, is given a sample in this step.
Receives(i, kind) ==
    /\ Started(i)
    /\ Kind(i) = kind
    /\ pc[i] = "recv"
    /\ Len(delivered[Sub(i)]') = Len(delivered[Sub(i)]) + 1
Received(i) == Last(delivered[Sub(i)]')

\* What the loop of slot i does with the sample it is given in this step.
HandsToSend(i, s) ==
    /\ payload'[i] = Some(s.value)
    /\ pc'[i] = "send"
    /\ errlog'[i] = errlog[i]
DropsSample(i, why) ==
    /\ payload'[i] = None
    /\ pc'[i] = "recv"
    /\ errlog'[i] = Append(errlog[i], why)
    /\ sent' = sent

C20_JsonDispatch ==
    /\ [](\A i \in Slots : (Started(i) /\ Kind(i) = "json") =>
            \A k \in DOMAIN sent[Chan(i)] :
               LET s == delivered[Sub(i)][sent[Chan(i)][k].sample] IN
               /\ s.encoding \in {"TextPlain", "TextJson", "AppOctetStream"}
               /\ s.convertible
               /\ sent[Chan(i)][k].payload = s.value)
    /\ [][\A i \in Slots : Receives(i, "json") =>
            IF Received(i).encoding \in {"TextPlain", "TextJson", "AppOctetStream"}
            THEN IF Received(i).convertible
                 THEN HandsToSend(i, Received(i))
                 ELSE DropsSample(i, "decode")
            ELSE /\ payload'[i] = None
                 /\ sent' = sent
                 /\ errlog'[i] = Append(errlog[i], "encoding")]_vars

\* A JSON loop has sent the bytes of a TextJson sample, dropped an
\* AppOctetStream sample that did not convert and sent the next one.
C20_Witness ==
    \E i \in Slots :
        /\ Started(i)
        /\ Kind(i) = "json"
        /\ Len(delivered[Sub(i)]) = 3
        /\ delivered[Sub(i)][1].encoding = "TextJson"
        /\ delivered[Sub(i)][2].encoding = "AppOctetStream"
        /\ ~delivered[Sub(i)][2].convertible
        /\ delivered[Sub(i)][3].encoding = "AppOctetStream"
        /\ PayloadsSent(i) = <<1, 3>>
        /\ errlog[i] = <<"decode">>

\* ------------------------------------------------------- claims C21 to C25
\* The loop of slot i is given a sample, and so reads the wall clock, in
\* this step.
ReadsClock(i) == Receives(i, "proto") \/ Receives(i, "json")
NanosSinceEpoch == clock - UNIX_EPOCH
InU64 == NanosSinceEpoch >= 0 /\ NanosSinceEpoch <= 2 ^ NanosBits - 1

\* C21: system_time_to_nanos returns exactly the nanoseconds since the Unix
\* epoch when that number fits a u64; for a larger number, or a time before
\* the epoch, it returns no value (nothing truncated or wrapped) but panics,
\* and the panic ends the calling forwarder without passing through the
\* error catch of the round: nothing is logged and nothing is sent.
C21_NanosExact ==
    /\ [](\A d \in ClockValues :
            system_time_to_nanos(d) =
               IF d >= 0 /\ d <= 2 ^ NanosBits - 1 THEN Some(d) ELSE None)
    /\ [][\A i \in Slots : ReadsClock(i) =>
            IF InU64
            THEN /\ time_nanos'[i] = NanosSinceEpoch
                 /\ (pc'[i] = "panicked" => Received(i).encoding = "Other")
            ELSE /\ pc'[i] = "panicked"
                 /\ errlog'[i] = errlog[i]
                 /\ payload'[i] = None
                 /\ time_nanos'[i] = time_nanos[i]
                 /\ sent' = sent]_vars

\* A forwarder has sent a message stamped with the largest u64 and then
\* ended on reading a clock one nanosecond later, with nothing logged.
C21_Witness ==
    \E i \in Slots :
        /\ Started(i)
        /\ pc[i] = "panicked"
        /\ errlog[i] = <<>>
        /\ clock = U64_MAX + 1
        /\ Len(delivered[Sub(i)]) = 2
        /\ TimesSent(i) = <<U64_MAX>>

IsDecodeError(w) == w = "decode"

\* The samples of slot i: sent with success, dropped by a failed conversion
\* or a failed send, and the one the round has not finished with (its
\* payload is being sent, or the round ended in a panic).
SentOk(i) == Len(SelectSeq(sent[Chan(i)], IsOk))
Dropped(i) ==
    Len(SelectSeq(errlog[i], IsDecodeError)) + Len(SelectSeq(sent[Chan(i)], IsFailed))
InFlight(i) == IF pc[i] \in {"send", "panicked"} THEN 1 ELSE 0

\* recv_async of slot i fails in this step.
ReceiveFails(i) ==
    /\ Started(i)
    /\ pc[i] = "recv"
    /\ errlog'[i] = Append(errlog[i], "recv")

ChannelCreationFailed == orch.err = Some("ChannelError")

\* C23: when the creation of a topic's channel fails after its bus
\* subscription was declared, the start returns the error, no forwarder task
\* is spawned for the topic and the subscription already declared is
\* released: the topic owns no channel, no live bus subscription and no
\* task.
C23_ChannelFailureReleases ==
    ChannelCreationFailed =>
        /\ orch.pc = "failed"
        /\ declared = orch.idx
        /\ ~Started(orch.idx)
        /\ pc[orch.idx] = "none"
        /\ OwnedChannels(orch.idx) = {}
        /\ OwnedSubscribers(orch.idx) = {}

\* The second topic's channel could not be created; the first topic is
\* started and keeps its subscription.
C23_Witness ==
    /\ ChannelCreationFailed
    /\ orch.idx = 2
    /\ declared = 2
    /\ FullyStarted(1)
    /\ Cardinality(subscribers) = 1

RECURSIVE Presses(_, _)
\* The ButtonPressed events of gamepad id among evs.
Presses(evs, id) ==
    IF evs = <<>> THEN 0
    ELSE (IF Head(evs).id = id /\ Head(evs).event = "ButtonPressed" THEN 1 ELSE 0)
         + Presses(Tail(evs), id)

EventIds(evs) == {evs[k].id : k \in DOMAIN evs}

\* The loop runs the body of an iteration in this step.
RunsBody == gp_pc = "body" /\ gp_pc' # "body"

\* C24: in every message published, the gamepad ids of the message are among
\* the ids the input library enumerated in the same iteration; an entry
\* created by an event of a gamepad that is not enumerated is removed before
\* the publish; the event counters of a gamepad that comes back after its
\* entry was removed start from zero.
C24_PublishedIdsEnumerated ==
    /\ [](\A k \in DOMAIN published :
            DOMAIN published[k].message.gamepads \subseteq published[k].known_ids)
    /\ [][RunsBody =>
            /\ \A id \in EventIds(events') \ known_ids' :
                 id \notin DOMAIN gamepads'
            /\ \A id \in DOMAIN gamepads' \ DOMAIN gamepads :
                 gamepads'[id].button_down_event_counter = Presses(events', id)
            /\ json' # None => unwrap(json').gamepads = gamepads']_vars

\* A message was published in an iteration that had a button event of
\* gamepad 1 while only gamepad 2 was enumerated: it holds gamepad 2 alone.
C24_Witness ==
    /\ gp_pc = "sleep"
    /\ events = <<[id |-> 1, event |-> "ButtonPressed"]>>
    /\ known_ids = {2}
    /\ DOMAIN Last(published).message.gamepads = {2}

AfterCtrlC(m) == ~m.keep_running
Terminated == gp_pc \in {"done", "failed"}

\* C25: shutdown of the gamepad publisher of main.  Once the Ctrl-C handler
\* has cleared keep_running the loop publishes at most once more (the
\* iteration in progress) and then terminates, with Ok(()) unless that
\* iteration fails; the loop returns Ok(()) for no other reason; a failed
\* put or a failed serialization is not skipped: it ends the loop with that
\* error.
C25_Shutdown ==
    /\ [](reader = "main" =>
            /\ Len(SelectSeq(published, AfterCtrlC)) <= 1
            /\ result = Some("Ok") => ~keep_running)
    /\ [][/\ (gp_pc = "put" /\ gp_pc' # "put" /\ published' = published) =>
               (gp_pc' = "failed" /\ result' = Some("ZenohError"))
          /\ (RunsBody /\ json' = None) =>
               (gp_pc' = "failed" /\ result' = Some("SerdeError"))
          /\ Terminated => (gp_pc' = gp_pc /\ published' = published)]_vars
    /\ (reader = "main" /\ ~keep_running) ~> Terminated

\* Ctrl-C came during an iteration: its message was published and the loop
\* then returned Ok(()).
C25_Witness ==
    /\ reader = "main"
    /\ result = Some("Ok")
    /\ published # <<>>
    /\ ~Last(published).keep_running

====
